---- MODULE Spec2Model ----
(***************************************************************************)
(* Model of the DeepSeek relay server (src/server.js): one HTTP handler    *)
(* that validates a request, clears the upstream chat context, waits a     *)
(* fixed delay, posts the message and drains the streamed answer.          *)
(*                                                                         *)
(* Text is modelled as a sequence of tokens, each token a run of           *)
(* characters that the transport never cuts:                               *)
(*   "data:"  the five characters  data:                                   *)
(*   " "      one space                                                    *)
(*   "CR"     carriage return,  "LF"  line feed                            *)
(*   "{c:"    {"choices":[{"delta":{"content":"                            *)
(*   "}"      "}}]}                                                        *)
(*   "{}"     a JSON object without choices[0].delta.content               *)
(*   "[DONE]" the characters [DONE], which are not JSON                    *)
(*   "Hel", "lo"  text of a delta                                          *)
(* A string built by += is the sequence of the text tokens appended.       *)
(***************************************************************************)
EXTENDS Integers, Sequences, FiniteSets, TLC

\* ------------------------------------------------------------- bounds
MaxReqs == 2          \* inbound requests of one run
MaxEvents == 3        \* event lines of one upstream stream (SpecStream)
MaxConcEvents == 1    \* event lines of one upstream stream (Spec)
MaxLate == 1          \* stream events delivered after the promise settled, per request

Reqs == 1..MaxReqs

\* ------------------------------------------------------------- constants
DEEPSEEK_MODEL_CLASS == "deepseek_code"
VALID_MODELS == {"deepseek_code", "deepseek_chat"}

Absent == "<undefined>"                       \* a field the body does not carry
ModelInputs == {Absent, "", "deepseek_code", "deepseek_chat", "gpt_4"}
MessageInputs == {Absent, "", "hi"}
Bodies == [model : ModelInputs, message : MessageInputs]
ModelClasses == VALID_MODELS \cup {"gpt_4"}

KeyMissingText == "DeepSeek API key is not provided in environment variables."
MessageRequiredText == "Message is required."
InvalidModelText == "Invalid model. Valid models are: deepseek_code, deepseek_chat"
FailedText == "Failed to process the request. Details: "

\* JavaScript truthiness of a string-or-undefined value
Truthy(v) == v /= Absent /\ v /= ""

\* ------------------------------------------------------------- stream text
Texts == {"Hel", "lo"}
Whitespace == {" ", "CR"}
Eols == {<<"LF">>, <<"CR", "LF">>}

DeltaEvent(t) == [kind |-> "delta", text |-> t]
NoDeltaEvent == [kind |-> "nodelta", text |-> ""]
MalformedEvent == [kind |-> "malformed", text |-> ""]
Events == {DeltaEvent(t) : t \in Texts} \cup {NoDeltaEvent, MalformedEvent}

RECURSIVE SeqsUpTo(_, _)
SeqsUpTo(S, n) ==
  IF n = 0 THEN {<<>>}
  ELSE LET shorter == SeqsUpTo(S, n - 1)
       IN shorter \cup {Append(s, e) : s \in {x \in shorter : Len(x) = n - 1}, e \in S}

\* an upstream stream: its event lines and the line terminator it uses
Streams(n, eols) == [events : SeqsUpTo(Events, n), eol : eols]

Json(e) ==
  CASE e.kind = "delta" -> <<"{c:", e.text, "}">>
    [] e.kind = "nodelta" -> <<"{}">>
    [] OTHER -> <<"[DONE]">>

Payload(e) == <<"data:", " ">> \o Json(e)

RECURSIVE WireOf(_, _)
WireOf(events, eol) ==
  IF events = <<>> THEN <<>>
  ELSE Payload(Head(events)) \o eol \o WireOf(Tail(events), eol)

\* chunk.toString('utf8').split(/\r?\n/)
RECURSIVE SplitFrom(_, _, _, _)
SplitFrom(chunk, i, cur, out) ==
  IF i > Len(chunk) THEN Append(out, cur)
  ELSE IF chunk[i] = "LF"
       THEN LET line == IF cur /= <<>> /\ cur[Len(cur)] = "CR"
                        THEN SubSeq(cur, 1, Len(cur) - 1) ELSE cur
            IN SplitFrom(chunk, i + 1, <<>>, Append(out, line))
       ELSE SplitFrom(chunk, i + 1, Append(cur, chunk[i]), out)

SplitLines(chunk) == SplitFrom(chunk, 1, <<>>, <<>>)

\* String.prototype.trim (also the white space JSON.parse allows around a value)
RECURSIVE Trim(_)
Trim(s) ==
  IF s = <<>> THEN s
  ELSE IF Head(s) \in Whitespace THEN Trim(Tail(s))
  ELSE IF s[Len(s)] \in Whitespace THEN Trim(SubSeq(s, 1, Len(s) - 1))
  ELSE s

\* line.trim().startsWith('data: ')
StartsWithData(t) == Len(t) >= 2 /\ t[1] = "data:" /\ t[2] = " "

\* JSON.parse(text) followed by the choices[0].delta.content test:
\* ok = FALSE when JSON.parse throws; content = <<>> when there is no content.
JSONParse(text) ==
  LET j == Trim(text)
  IN IF Len(j) = 3 /\ j[1] = "{c:" /\ j[2] \in Texts /\ j[3] = "}"
       THEN [ok |-> TRUE, content |-> <<j[2]>>]
     ELSE IF j = <<"{c:", "}">> \/ j = <<"{}">>
       THEN [ok |-> TRUE, content |-> <<>>]
     ELSE [ok |-> FALSE, content |-> <<>>]

\* a mutant: a line that fails to parse discards what was accumulated
ProcessLineResetOnError(acc, line) ==
  LET t == Trim(line)
  IN IF StartsWithData(t)
       THEN LET p == JSONParse(SubSeq(t, 3, Len(t)))
            IN IF p.ok THEN acc \o p.content ELSE <<>>
       ELSE acc

\* a mutant: the delta is put in front of the accumulated text
ProcessLinePrepend(acc, line) ==
  LET t == Trim(line)
  IN IF StartsWithData(t)
       THEN LET p == JSONParse(SubSeq(t, 3, Len(t)))
            IN IF p.ok THEN p.content \o acc ELSE acc
       ELSE acc

\* a mutant: a line without the data: prefix is parsed as well
ProcessLineNoPrefixCheck(acc, line) ==
  LET t == Trim(line)
      p == JSONParse(IF StartsWithData(t) THEN SubSeq(t, 3, Len(t)) ELSE t)
  IN IF p.ok THEN acc \o p.content ELSE acc

\* the body of the for loop of the 'data' listener
ProcessLine(acc, line) ==
  LET t == Trim(line)
  IN IF StartsWithData(t)
       THEN LET p == JSONParse(SubSeq(t, 3, Len(t)))
            IN IF p.ok THEN acc \o p.content ELSE acc
       ELSE acc

RECURSIVE ProcessLines(_, _)
ProcessLines(acc, lines) ==
  IF lines = <<>> THEN acc
  ELSE ProcessLines(ProcessLine(acc, Head(lines)), Tail(lines))

\* the 'data' listener on one chunk
ProcessChunk(acc, chunk) == ProcessLines(acc, SplitLines(chunk))


\* reference value of the claims: the deltas of the event lines, in stream order
RECURSIVE AllDeltas(_)
AllDeltas(events) ==
  IF events = <<>> THEN <<>>
  ELSE (IF Head(events).kind = "delta" THEN <<Head(events).text>> ELSE <<>>)
       \o AllDeltas(Tail(events))

\* reference value of the claims (kept in the history variable intact):
\* the deltas of the event lines whose payload (from data: to the end of the
\* JSON text) lies wholly in wire positions from..to, the first line starting at
\* position start
RECURSIVE DeltasWithin(_, _, _, _, _)
DeltasWithin(events, eol, start, from, to) ==
  IF events = <<>> THEN <<>>
  ELSE LET e == Head(events)
           last == start + Len(Payload(e)) - 1
       IN (IF e.kind = "delta" /\ from <= start /\ last <= to
             THEN <<e.text>> ELSE <<>>)
          \o DeltasWithin(Tail(events), eol, last + Len(eol) + 1, from, to)

\* ------------------------------------------------------------- state
VARIABLES
  apiKey,      \* process.env.DEEPSEEK is set
  ctx,         \* upstream: per model class, the requests whose message is in its context
  req,         \* per request: the body received
  pc,          \* per request: where its handler stands
  status,      \* per request: HTTP status sent (0: none yet)
  resBody,     \* per request: JSON body sent
  clearClass,  \* per request: model_class of its clear_context payload
  sendClass,   \* per request: model_class of its completions payload
  stream,      \* per request: the upstream stream it was answered with
  pos,         \* per request: wire tokens delivered so far
  acc,         \* per request: combinedResponse of sendMessage
  log,         \* per request: history of its upstream calls and responses
  seenCtx,     \* per request: history, the context its message met upstream
  aligned,     \* per request: history, every chunk so far ended with a line end
  intact       \* per request: history, deltas of the lines no chunk boundary cut

vars == <<apiKey, ctx, req, pc, status, resBody, clearClass, sendClass, stream,
          pos, acc, log, seenCtx, aligned, intact>>

upstreamVars == <<ctx, seenCtx>>
streamVars == <<stream, pos, acc, aligned, intact>>

NoBody == [model |-> Absent, message |-> Absent]
NoStream == [events |-> <<>>, eol |-> <<"LF">>]
NoRes == [kind |-> "none", error |-> "", detail |-> "", response |-> <<>>]
ErrorRes(text, detail) ==
  [kind |-> "error", error |-> text, detail |-> detail, response |-> <<>>]
OkRes(text) == [kind |-> "response", error |-> "", detail |-> "", response |-> text]

UpstreamErrors == {"Request failed with status code 500", "socket hang up"}

Wire(r) == WireOf(stream[r].events, stream[r].eol)

Init ==
  /\ apiKey \in BOOLEAN
  /\ ctx = [m \in ModelClasses |-> {}]
  /\ req = [r \in Reqs |-> NoBody]
  /\ pc = [r \in Reqs |-> "idle"]
  /\ status = [r \in Reqs |-> 0]
  /\ resBody = [r \in Reqs |-> NoRes]
  /\ clearClass = [r \in Reqs |-> Absent]
  /\ sendClass = [r \in Reqs |-> Absent]
  /\ stream = [r \in Reqs |-> NoStream]
  /\ pos = [r \in Reqs |-> 0]
  /\ acc = [r \in Reqs |-> <<>>]
  /\ log = [r \in Reqs |-> <<>>]
  /\ seenCtx = [r \in Reqs |-> {}]
  /\ aligned = [r \in Reqs |-> TRUE]
  /\ intact = [r \in Reqs |-> <<>>]

\* res.status(code).json(body): the request is answered
Respond(r, code, body, entries) ==
  /\ status' = [status EXCEPT ![r] = code]
  /\ resBody' = [resBody EXCEPT ![r] = body]
  /\ pc' = [pc EXCEPT ![r] = "done"]
  /\ log' = [log EXCEPT ![r] = @ \o entries]

\* ------------------------------------------------------------- validation
\* mutants of the validation
ValidateMessageFirst(key, body) ==
  IF ~Truthy(body.message) THEN "no_message"
  ELSE IF ~key THEN "no_key"
  ELSE IF Truthy(body.model) /\ body.model \notin VALID_MODELS THEN "bad_model"
  ELSE "ok"

ValidateNoMessageCheck(key, body) ==
  IF ~key THEN "no_key"
  ELSE IF Truthy(body.model) /\ body.model \notin VALID_MODELS THEN "bad_model"
  ELSE "ok"

ValidateNoModelCheck(key, body) ==
  IF ~key THEN "no_key"
  ELSE IF ~Truthy(body.message) THEN "no_message"
  ELSE "ok"

ValidateModelFirst(key, body) ==
  IF ~key THEN "no_key"
  ELSE IF Truthy(body.model) /\ body.model \notin VALID_MODELS THEN "bad_model"
  ELSE IF ~Truthy(body.message) THEN "no_message"
  ELSE "ok"

\* the three checks at the head of the handler, in the handler's order
Validate(key, body) ==
  IF ~key THEN "no_key"
  ELSE IF ~Truthy(body.message) THEN "no_message"
  ELSE IF Truthy(body.model) /\ body.model \notin VALID_MODELS THEN "bad_model"
  ELSE "ok"

\* the clear_context payload
ClearPayloadClass(model) == DEEPSEEK_MODEL_CLASS

\* a mutant: the completions payload ignores the requested model
SendPayloadClassDefault(model) == DEEPSEEK_MODEL_CLASS

\* the completions payload: model || DEEPSEEK_MODEL_CLASS
SendPayloadClass(model) == IF Truthy(model) THEN model ELSE DEEPSEEK_MODEL_CLASS

\* ------------------------------------------------------------- handler
\* a mutant: the invalid-model branch answers 400 without returning
HandleNoReturn(r) ==
  /\ pc[r] = "idle"
  /\ \E body \in Bodies :
       /\ req' = [req EXCEPT ![r] = body]
       /\ LET v == Validate(apiKey, body)
          IN CASE v = "no_key" ->
                    /\ Respond(r, 500, ErrorRes(KeyMissingText, ""), <<"res_500">>)
                    /\ UNCHANGED clearClass
               [] v = "no_message" ->
                    /\ Respond(r, 400, ErrorRes(MessageRequiredText, ""), <<"res_400">>)
                    /\ UNCHANGED clearClass
               [] v = "bad_model" ->
                    /\ status' = [status EXCEPT ![r] = 400]
                    /\ resBody' = [resBody EXCEPT ![r] = ErrorRes(InvalidModelText, "")]
                    /\ pc' = [pc EXCEPT ![r] = "clearing"]
                    /\ clearClass' = [clearClass EXCEPT ![r] = ClearPayloadClass(body.model)]
                    /\ log' = [log EXCEPT ![r] = @ \o <<"res_400", "clear_sent">>]
               [] OTHER ->
                    /\ pc' = [pc EXCEPT ![r] = "clearing"]
                    /\ clearClass' = [clearClass EXCEPT ![r] = ClearPayloadClass(body.model)]
                    /\ log' = [log EXCEPT ![r] = Append(@, "clear_sent")]
                    /\ UNCHANGED <<status, resBody>>
  /\ UNCHANGED <<apiKey, sendClass, upstreamVars, streamVars>>

\* a request arrives: validation, then clearChatContext() posts clear_context
Handle(r) ==
  /\ pc[r] = "idle"
  /\ \E body \in Bodies :
       /\ req' = [req EXCEPT ![r] = body]
       /\ LET v == Validate(apiKey, body)
          IN CASE v = "no_key" ->
                    /\ Respond(r, 500, ErrorRes(KeyMissingText, ""), <<"res_500">>)
                    /\ UNCHANGED clearClass
               [] v = "no_message" ->
                    /\ Respond(r, 400, ErrorRes(MessageRequiredText, ""), <<"res_400">>)
                    /\ UNCHANGED clearClass
               [] v = "bad_model" ->
                    /\ Respond(r, 400, ErrorRes(InvalidModelText, ""), <<"res_400">>)
                    /\ UNCHANGED clearClass
               [] OTHER ->
                    /\ pc' = [pc EXCEPT ![r] = "clearing"]
                    /\ clearClass' = [clearClass EXCEPT ![r] = ClearPayloadClass(body.model)]
                    /\ log' = [log EXCEPT ![r] = Append(@, "clear_sent")]
                    /\ UNCHANGED <<status, resBody>>
  /\ UNCHANGED <<apiKey, sendClass, upstreamVars, streamVars>>

\* a mutant: the delay is skipped and the message is posted at once
ClearOkNoDelay(r) ==
  /\ pc[r] = "clearing"
  /\ ctx' = [ctx EXCEPT ![clearClass[r]] = {}]
  /\ pc' = [pc EXCEPT ![r] = "posting"]
  /\ sendClass' = [sendClass EXCEPT ![r] = SendPayloadClass(req[r].model)]
  /\ log' = [log EXCEPT ![r] = @ \o <<"clear_ok", "send_sent">>]
  /\ UNCHANGED <<apiKey, req, status, resBody, clearClass, seenCtx, streamVars>>

\* clear_context answers 2xx: the upstream context of the class is blank, and
\* clearChatContext starts its 2-second timer
ClearOk(r) ==
  /\ pc[r] = "clearing"
  /\ ctx' = [ctx EXCEPT ![clearClass[r]] = {}]
  /\ pc' = [pc EXCEPT ![r] = "delaying"]
  /\ log' = [log EXCEPT ![r] = Append(@, "clear_ok")]
  /\ UNCHANGED <<apiKey, req, status, resBody, clearClass, sendClass, seenCtx, streamVars>>

\* a mutant: the error of clear_context is logged and not rethrown
ClearFailSwallowed(r) ==
  /\ pc[r] = "clearing"
  /\ pc' = [pc EXCEPT ![r] = "delaying"]
  /\ log' = [log EXCEPT ![r] = Append(@, "clear_failed")]
  /\ UNCHANGED <<apiKey, req, status, resBody, clearClass, sendClass, upstreamVars, streamVars>>

\* clear_context fails (transport error or non-2xx, with or without the reset
\* applied upstream): clearChatContext rethrows, the handler answers 500
ClearFail(r) ==
  /\ pc[r] = "clearing"
  /\ \E applied \in BOOLEAN :
       ctx' = IF applied THEN [ctx EXCEPT ![clearClass[r]] = {}] ELSE ctx
  /\ \E err \in UpstreamErrors :
       Respond(r, 500, ErrorRes(FailedText, err), <<"clear_failed", "res_500">>)
  /\ UNCHANGED <<apiKey, req, clearClass, sendClass, seenCtx, streamVars>>

\* the timer fires: clearChatContext returns and sendMessage posts completions
DelayElapsed(r) ==
  /\ pc[r] = "delaying"
  /\ pc' = [pc EXCEPT ![r] = "posting"]
  /\ sendClass' = [sendClass EXCEPT ![r] = SendPayloadClass(req[r].model)]
  /\ log' = [log EXCEPT ![r] = @ \o <<"delay_elapsed", "send_sent">>]
  /\ UNCHANGED <<apiKey, req, status, resBody, clearClass, upstreamVars, streamVars>>

\* completions answers 2xx with a stream: the message joins the upstream context
\* of its class and the listeners are attached
PostOk(r, streams) ==
  /\ pc[r] = "posting"
  /\ \E s \in streams : stream' = [stream EXCEPT ![r] = s]
  /\ seenCtx' = [seenCtx EXCEPT ![r] = ctx[sendClass[r]]]
  /\ ctx' = [ctx EXCEPT ![sendClass[r]] = @ \cup {r}]
  /\ pc' = [pc EXCEPT ![r] = "streaming"]
  /\ log' = [log EXCEPT ![r] = Append(@, "send_ok")]
  /\ UNCHANGED <<apiKey, req, status, resBody, clearClass, sendClass, pos, acc, aligned, intact>>

\* a mutant: a failed completions call is posted once more
PostFailRetry(r) ==
  /\ pc[r] = "posting"
  /\ Cardinality({i \in 1..Len(log[r]) : log[r][i] = "send_sent"}) < 2
  /\ log' = [log EXCEPT ![r] = @ \o <<"send_failed", "send_sent">>]
  /\ UNCHANGED <<apiKey, req, pc, status, resBody, clearClass, sendClass,
                 upstreamVars, streamVars>>

\* completions fails: sendMessage rethrows, the handler answers 500
PostFail(r) ==
  /\ pc[r] = "posting"
  /\ \E err \in UpstreamErrors :
       Respond(r, 500, ErrorRes(FailedText, err), <<"send_failed", "res_500">>)
  /\ UNCHANGED <<apiKey, req, clearClass, sendClass, upstreamVars, streamVars>>

\* a mutant: combinedResponse is one variable shared by the requests streaming
StreamDataShared(r) ==
  /\ pc[r] = "streaming"
  /\ \E k \in 1..(Len(Wire(r)) - pos[r]) :
       LET chunk == SubSeq(Wire(r), pos[r] + 1, pos[r] + k)
       IN /\ acc' = [q \in Reqs |-> IF pc[q] = "streaming"
                                      THEN ProcessChunk(acc[q], chunk) ELSE acc[q]]
          /\ pos' = [pos EXCEPT ![r] = @ + k]
          /\ aligned' = [aligned EXCEPT ![r] = @ /\ chunk[k] = "LF"]
          /\ intact' = [intact EXCEPT ![r] =
                          @ \o DeltasWithin(stream[r].events, stream[r].eol, 1,
                                            pos[r] + 1, pos[r] + k)]
  /\ UNCHANGED <<apiKey, req, pc, status, resBody, clearClass, sendClass, stream,
                 log, upstreamVars>>

\* a 'data' event: the transport hands over the next k tokens as one chunk
StreamData(r) ==
  /\ pc[r] = "streaming"
  /\ \E k \in 1..(Len(Wire(r)) - pos[r]) :
       LET chunk == SubSeq(Wire(r), pos[r] + 1, pos[r] + k)
       IN /\ acc' = [acc EXCEPT ![r] = ProcessChunk(@, chunk)]
          /\ pos' = [pos EXCEPT ![r] = @ + k]
          /\ aligned' = [aligned EXCEPT ![r] = @ /\ chunk[k] = "LF"]
          /\ intact' = [intact EXCEPT ![r] =
                          @ \o DeltasWithin(stream[r].events, stream[r].eol, 1,
                                            pos[r] + 1, pos[r] + k)]
  /\ UNCHANGED <<apiKey, req, pc, status, resBody, clearClass, sendClass, stream,
                 log, upstreamVars>>

\* a mutant: the 'end' listener is missing, the promise is never resolved
StreamEndNoResolve(r) ==
  /\ pc[r] = "streaming"
  /\ pos[r] = Len(Wire(r))
  /\ pc' = [pc EXCEPT ![r] = "ended"]
  /\ log' = [log EXCEPT ![r] = Append(@, "end")]
  /\ UNCHANGED <<apiKey, req, status, resBody, clearClass, sendClass, upstreamVars,
                 streamVars>>

\* the 'end' event: the promise resolves and the handler answers 200
StreamEnd(r) ==
  /\ pc[r] = "streaming"
  /\ pos[r] = Len(Wire(r))
  /\ Respond(r, 200, OkRes(acc[r]), <<"end", "res_200">>)
  /\ UNCHANGED <<apiKey, req, clearClass, sendClass, upstreamVars, streamVars>>

\* a mutant: on a stream error the text accumulated so far is sent as the answer
StreamErrorPartial(r) ==
  /\ pc[r] = "streaming"
  /\ Respond(r, 200, OkRes(acc[r]), <<"error", "res_200">>)
  /\ UNCHANGED <<apiKey, req, clearClass, sendClass, upstreamVars, streamVars>>

\* the 'error' event: the promise rejects and the handler answers 500
StreamError(r) ==
  /\ pc[r] = "streaming"
  /\ \E err \in UpstreamErrors :
       Respond(r, 500, ErrorRes(FailedText, err), <<"error", "res_500">>)
  /\ UNCHANGED <<apiKey, req, clearClass, sendClass, upstreamVars, streamVars>>

\* stream events of a request delivered after its promise settled (history)
LateCount(r) ==
  Cardinality({i \in 1..Len(log[r]) :
                 log[r][i] \in {"late_data", "late_end", "late_error"}})

Settled(r) ==
  /\ pc[r] = "done"
  /\ \E i \in 1..Len(log[r]) : log[r][i] = "send_ok"
  /\ LateCount(r) < MaxLate

\* a 'data' event after the promise settled: the listener still runs and
\* changes combinedResponse, which nobody reads any more
LateData(r) ==
  /\ Settled(r)
  /\ \E k \in 1..(Len(Wire(r)) - pos[r]) :
       LET chunk == SubSeq(Wire(r), pos[r] + 1, pos[r] + k)
       IN /\ acc' = [acc EXCEPT ![r] = ProcessChunk(@, chunk)]
          /\ pos' = [pos EXCEPT ![r] = @ + k]
          /\ aligned' = [aligned EXCEPT ![r] = @ /\ chunk[k] = "LF"]
          /\ intact' = [intact EXCEPT ![r] =
                          @ \o DeltasWithin(stream[r].events, stream[r].eol, 1,
                                            pos[r] + 1, pos[r] + k)]
  /\ log' = [log EXCEPT ![r] = Append(@, "late_data")]
  /\ UNCHANGED <<apiKey, req, pc, status, resBody, clearClass, sendClass, stream,
                 upstreamVars>>

\* a mutant: a late 'error' event runs the handler's catch once more
LateSettleResponds(r) ==
  /\ Settled(r)
  /\ \E err \in UpstreamErrors :
       Respond(r, 500, ErrorRes(FailedText, err), <<"late_error", "res_500">>)
  /\ UNCHANGED <<apiKey, req, clearClass, sendClass, upstreamVars, streamVars>>

\* an 'end' or 'error' event after the promise settled: resolve and reject of
\* a settled promise do nothing
LateSettle(r) ==
  /\ Settled(r)
  /\ \E ev \in {"late_end", "late_error"} :
       log' = [log EXCEPT ![r] = Append(@, ev)]
  /\ UNCHANGED <<apiKey, req, pc, status, resBody, clearClass, sendClass,
                 upstreamVars, streamVars>>

\* ------------------------------------------------------------- specifications
\* several requests in flight, short streams
Next ==
  \E r \in Reqs :
    \/ Handle(r)
    \/ ClearOk(r)
    \/ ClearFail(r)
    \/ DelayElapsed(r)
    \/ PostOk(r, Streams(MaxConcEvents, {<<"LF">>}))
    \/ PostFail(r)
    \/ StreamData(r)
    \/ StreamEnd(r)
    \/ StreamError(r)

Spec == Init /\ [][Next]_vars

\* the steps of a request that the runtime and the upstream service take once
\* the request is in: answers to its calls, its timer, its stream's events
Progress(r) ==
  \/ ClearOk(r)
  \/ ClearFail(r)
  \/ DelayElapsed(r)
  \/ PostOk(r, Streams(MaxConcEvents, {<<"LF">>}))
  \/ PostFail(r)
  \/ StreamData(r)
  \/ StreamEnd(r)
  \/ StreamError(r)

\* the request whose upstream calls may stay unanswered for ever
Stalling == MaxReqs

\* as Spec, with the upstream answering every call and ending every stream of
\* every request but Stalling, and the timers firing
SpecLive ==
  Init /\ [][Next]_vars /\ \A r \in Reqs \ {Stalling} : WF_vars(Progress(r))

\* one request, every stream and every division of it into chunks
NextStream ==
  \/ Handle(1)
  \/ ClearOk(1)
  \/ ClearFail(1)
  \/ DelayElapsed(1)
  \/ PostOk(1, Streams(MaxEvents, Eols))
  \/ PostFail(1)
  \/ StreamData(1)
  \/ StreamEnd(1)
  \/ StreamError(1)

SpecStream == Init /\ [][NextStream]_vars

\* one request, short streams, and stream events that arrive after the promise
\* settled
NextLate ==
  \/ Handle(1)
  \/ ClearOk(1)
  \/ ClearFail(1)
  \/ DelayElapsed(1)
  \/ PostOk(1, Streams(MaxConcEvents, Eols))
  \/ PostFail(1)
  \/ StreamData(1)
  \/ StreamEnd(1)
  \/ StreamError(1)
  \/ LateData(1)
  \/ LateSettle(1)

SpecLate == Init /\ [][NextLate]_vars

\* ------------------------------------------------------------- claims
InLog(r, e) == \E i \in 1..Len(log[r]) : log[r][i] = e
Received(r) == pc[r] /= "idle"
NoUpstreamCall(r) == ~InLog(r, "clear_sent") /\ ~InLog(r, "send_sent")
MessageMissing(r) == Received(r) /\ ~Truthy(req[r].message)

\* C1 as stated: every request without a message (absent or empty) is answered
\* 400 and issues no upstream call.
C1_Original ==
  \A r \in Reqs : MessageMissing(r) => status[r] = 400 /\ NoUpstreamCall(r)

\* C1 amended: a request without a message (absent or empty) never issues an
\* upstream call; it is answered 400 "Message is required." when the credential
\* is set, and 500 when the credential is unset.
C1_MissingMessage ==
  \A r \in Reqs :
    MessageMissing(r) =>
      /\ NoUpstreamCall(r)
      /\ pc[r] = "done"
      /\ apiKey => status[r] = 400 /\ resBody[r] = ErrorRes(MessageRequiredText, "")
      /\ ~apiKey => status[r] = 500

C1_Witness ==
  \E r1, r2 \in Reqs :
    /\ req[r1].message = Absent /\ status[r1] = 400
    /\ req[r2].message = "" /\ status[r2] = 400

\* C2: with the credential unset every request, whatever its body, is answered
\* 500 with the one fixed text, and no upstream call is issued for it.
C2_NoKey ==
  ~apiKey =>
    \A r \in Reqs :
      Received(r) =>
        /\ pc[r] = "done"
        /\ status[r] = 500
        /\ resBody[r] = ErrorRes(KeyMissingText, "")
        /\ NoUpstreamCall(r)

C2_Witness ==
  /\ ~apiKey
  /\ \E r1, r2 \in Reqs :
       /\ req[r1] = [model |-> "deepseek_chat", message |-> "hi"] /\ status[r1] = 500
       /\ req[r2] = [model |-> "gpt_4", message |-> Absent] /\ status[r2] = 500

\* C3 as stated, taken with the credential set: every request whose model is
\* present and not allow-listed, the empty string included, is answered 400.
C3_Original ==
  apiKey =>
    \A r \in Reqs :
      Received(r) /\ req[r].model /= Absent /\ req[r].model \notin VALID_MODELS
        => status[r] = 400

\* C3 amended: a request whose model is a non-empty value outside the allow-list
\* issues no upstream call and is answered 400 when the credential is set (500
\* when it is unset); an empty-string model counts as unspecified: with a
\* message and the credential it is accepted and sent with the default class.
C3_InvalidModel ==
  \A r \in Reqs :
    /\ Received(r) /\ Truthy(req[r].model) /\ req[r].model \notin VALID_MODELS =>
         /\ pc[r] = "done"
         /\ NoUpstreamCall(r)
         /\ apiKey => status[r] = 400
         /\ ~apiKey => status[r] = 500
    /\ Received(r) /\ req[r].model = "" /\ Truthy(req[r].message) /\ apiKey =>
         /\ InLog(r, "clear_sent")
         /\ status[r] /= 400
         /\ InLog(r, "send_sent") => sendClass[r] = DEEPSEEK_MODEL_CLASS

C3_Witness ==
  \E r1, r2 \in Reqs :
    /\ req[r1] = [model |-> "gpt_4", message |-> "hi"]
    /\ status[r1] = 400 /\ resBody[r1] = ErrorRes(InvalidModelText, "")
    /\ req[r2] = [model |-> "", message |-> "hi"]
    /\ status[r2] = 200

\* C4: a request whose clear_context call failed is answered 500 with the
\* failure text, without waiting the delay and without a completions call.
C4_ClearFailure ==
  \A r \in Reqs :
    InLog(r, "clear_failed") =>
      /\ pc[r] = "done"
      /\ status[r] = 500
      /\ resBody[r].kind = "error" /\ resBody[r].error = FailedText
      /\ resBody[r].detail \in UpstreamErrors
      /\ ~InLog(r, "delay_elapsed")
      /\ ~InLog(r, "send_sent")

C4_Witness ==
  \E r \in Reqs : InLog(r, "clear_failed") /\ status[r] = 500 /\ log[r][1] = "clear_sent"

\* C5: whenever the completions call of a request reaches the upstream service,
\* the upstream context of the class it is sent with is blank.
C5_CleanContext ==
  \A r \in Reqs : InLog(r, "send_ok") => seenCtx[r] = {}

\* C6: the model class of a request's clear_context payload equals the model
\* class of its completions payload.
C6_SameClass ==
  \A r \in Reqs : InLog(r, "send_sent") => clearClass[r] = sendClass[r]

\* C7: the response is the concatenation of all deltas of the event stream, in
\* order, however the transport divides the stream into chunks.
C7_ChunkIndependent ==
  \A r \in Reqs :
    status[r] = 200 => resBody[r].response = AllDeltas(stream[r].events)

\* C8: when every chunk consists of whole lines, the response at end-of-stream
\* is the deltas concatenated in the order their lines arrived.
C8_WholeLines ==
  \A r \in Reqs :
    /\ pc[r] = "streaming" /\ aligned[r] =>
         acc[r] = DeltasWithin(stream[r].events, stream[r].eol, 1, 1, pos[r])
    /\ InLog(r, "end") /\ aligned[r] =>
         /\ status[r] = 200
         /\ resBody[r] = OkRes(AllDeltas(stream[r].events))

C8_Witness ==
  \E r \in Reqs :
    /\ stream[r].events = <<DeltaEvent("Hel"), DeltaEvent("lo")>>
    /\ aligned[r] /\ InLog(r, "end")
    /\ resBody[r].response = <<"Hel", "lo">>

\* C9: a data: line that is not valid JSON is skipped: it neither ends the
\* stream nor reaches the caller, every valid delta line delivered before and
\* after it is appended in order, and the request ends 200 at end-of-stream.
C9_MalformedSkipped ==
  \A r \in Reqs :
    /\ pc[r] = "streaming" => acc[r] = intact[r]
    /\ InLog(r, "send_ok") /\ pc[r] = "done" =>
         \/ /\ InLog(r, "end") /\ status[r] = 200
            /\ resBody[r] = OkRes(intact[r])
         \/ InLog(r, "error") /\ status[r] = 500

C9_Witness ==
  \E r \in Reqs :
    /\ stream[r].events = <<DeltaEvent("Hel"), MalformedEvent, DeltaEvent("lo")>>
    /\ InLog(r, "end") /\ status[r] = 200
    /\ resBody[r].response = <<"Hel", "lo">>

\* C10: the completions call of a request is issued only after its
\* clear_context call returned successfully and the delay after it elapsed, never
\* while the reset or the delay is pending.
C10_SendAfterClearAndDelay ==
  \A r \in Reqs :
    /\ pc[r] \in {"clearing", "delaying"} => ~InLog(r, "send_sent")
    /\ \A i \in 1..Len(log[r]) :
         log[r][i] = "send_sent" =>
           \E j, k \in 1..Len(log[r]) :
             /\ j < k /\ k < i
             /\ log[r][j] = "clear_ok"
             /\ log[r][k] = "delay_elapsed"

C10_Witness ==
  \E r \in Reqs : InLog(r, "send_sent") /\ pc[r] = "posting"

\* number of entries e in a log
Count(l, e) == Cardinality({i \in 1..Len(l) : l[i] = e})
UpstreamCalls(l) == Count(l, "clear_sent") + Count(l, "send_sent")
Responses(l) == Count(l, "res_200") + Count(l, "res_400") + Count(l, "res_500")

\* C11: a request whose stream raised an error is answered 500 with an error
\* body that carries none of the text accumulated before the error.
C11_StreamErrorNoPartial ==
  \A r \in Reqs :
    InLog(r, "error") =>
      /\ pc[r] = "done"
      /\ status[r] = 500
      /\ resBody[r].kind = "error" /\ resBody[r].error = FailedText
      /\ resBody[r].detail \in UpstreamErrors
      /\ resBody[r].response = <<>>

C11_Witness ==
  \E r \in Reqs :
    /\ InLog(r, "error") /\ status[r] = 500
    /\ acc[r] = <<"Hel", "lo">> /\ LateCount(r) = 0

\* C12: with several requests streaming at once, the accumulator and the
\* response of each request hold exactly the deltas of its own stream's
\* delivered lines, in that stream's order, and nothing of another stream.
C12_OwnDeltasOnly ==
  \A r \in Reqs :
    /\ acc[r] = intact[r]
    /\ \A i \in 1..Len(acc[r]) :
         \E j \in 1..Len(stream[r].events) :
           stream[r].events[j] = DeltaEvent(acc[r][i])
    /\ status[r] = 200 => resBody[r].response = intact[r]

C12_Witness ==
  \E r1, r2 \in Reqs :
    /\ pc[r1] = "streaming" /\ pc[r2] = "streaming"
    /\ stream[r1].events = <<DeltaEvent("Hel")>> /\ acc[r1] = <<"Hel">>
    /\ stream[r2].events = <<DeltaEvent("lo")>> /\ acc[r2] = <<"lo">>

\* C13: whatever the upstream calls answer, a request issues at most one
\* clear_context call and at most one completions call.
C13_NoRetry ==
  \A r \in Reqs :
    /\ Count(log[r], "clear_sent") <= 1
    /\ Count(log[r], "send_sent") <= 1
    /\ InLog(r, "send_sent") => InLog(r, "clear_sent")

C13_Witness ==
  \E r1, r2 \in Reqs :
    /\ InLog(r1, "clear_failed") /\ pc[r1] = "done" /\ UpstreamCalls(log[r1]) = 1
    /\ InLog(r2, "send_failed") /\ pc[r2] = "done" /\ UpstreamCalls(log[r2]) = 2

\* C14: a 200 is sent only after every stage in order (credential present,
\* message non-empty, model accepted, clear_context succeeded, delay elapsed,
\* stream ended without error); a request answered 400 or 500 issues no further
\* upstream call and is never answered 200.
PassedAllStages(r) ==
  /\ apiKey
  /\ Truthy(req[r].message)
  /\ Truthy(req[r].model) => req[r].model \in VALID_MODELS
  /\ sendClass[r] \in VALID_MODELS
  /\ Len(log[r]) >= 7
  /\ SubSeq(log[r], 1, 7) = <<"clear_sent", "clear_ok", "delay_elapsed",
                              "send_sent", "send_ok", "end", "res_200">>
  /\ resBody[r].kind = "response"

ErrorIsFinal(r) ==
  status[r] \in {400, 500} =>
    /\ status'[r] = status[r]
    /\ UpstreamCalls(log'[r]) = UpstreamCalls(log[r])

C14_StagesInOrder ==
  /\ [](\A r \in Reqs : status[r] = 200 => PassedAllStages(r))
  /\ [][\A r \in Reqs : ErrorIsFinal(r)]_vars

C14_Witness ==
  \E r \in Reqs :
    /\ status[r] = 200 /\ PassedAllStages(r)
    /\ req[r].model = "deepseek_chat" /\ LateCount(r) = 1

\* C15: while the stream is drained, a line that does not start with data:
\* after trimming, or whose JSON has no delta content, leaves the accumulator
\* unchanged; a line with delta content appends that content at the end.
LineDelta(line) ==
  IF Len(line) < 5 THEN <<>>
  ELSE LET t == Trim(line)
       IN IF \E x \in Texts : t = Payload(DeltaEvent(x)) THEN <<t[4]>> ELSE <<>>

RECURSIVE LinesDeltas(_)
LinesDeltas(lines) ==
  IF lines = <<>> THEN <<>>
  ELSE LineDelta(Head(lines)) \o LinesDeltas(Tail(lines))

C15_OnlyDeltaLinesAppend ==
  [][\A r \in Reqs :
       IF pos'[r] = pos[r]
         THEN acc'[r] = acc[r]
         ELSE \A chunk \in {SubSeq(Wire(r), pos[r] + 1, pos'[r])} :
                acc'[r] = acc[r] \o LinesDeltas(SplitLines(chunk))]_vars

C15_Witness ==
  \E r \in Reqs :
    /\ stream[r].events = <<DeltaEvent("Hel"), NoDeltaEvent, MalformedEvent>>
    /\ pc[r] = "streaming" /\ pos[r] = Len(Wire(r)) /\ ~aligned[r]
    /\ acc[r] = <<"Hel">>

\* C16: the completions payload carries the request's model when one is given
\* and valid, the default class when none is given, and never a class outside
\* the allow-list.
C16_SendClass ==
  \A r \in Reqs :
    InLog(r, "send_sent") =>
      /\ sendClass[r] \in VALID_MODELS
      /\ req[r].model \in VALID_MODELS => sendClass[r] = req[r].model
      /\ ~Truthy(req[r].model) => sendClass[r] = DEEPSEEK_MODEL_CLASS

C16_Witness ==
  \E r1, r2 \in Reqs :
    /\ req[r1].model = "deepseek_chat" /\ sendClass[r1] = "deepseek_chat"
    /\ req[r2].model = Absent /\ sendClass[r2] = "deepseek_code"

\* C17: the checks have a fixed precedence: missing credential (500), then
\* missing message (400), then invalid model (400); a request breaking several
\* rules gets the answer of the first rule broken.
C17_Precedence ==
  \A r \in Reqs :
    Received(r) =>
      /\ ~apiKey => status[r] = 500 /\ resBody[r] = ErrorRes(KeyMissingText, "")
      /\ apiKey /\ ~Truthy(req[r].message) =>
           status[r] = 400 /\ resBody[r] = ErrorRes(MessageRequiredText, "")
      /\ apiKey /\ Truthy(req[r].message) /\ Truthy(req[r].model)
           /\ req[r].model \notin VALID_MODELS =>
           status[r] = 400 /\ resBody[r] = ErrorRes(InvalidModelText, "")

C17_Witness ==
  \E r1, r2 \in Reqs :
    /\ req[r1] = [model |-> "gpt_4", message |-> Absent]
    /\ resBody[r1] = ErrorRes(MessageRequiredText, "")
    /\ req[r2] = [model |-> "gpt_4", message |-> "hi"]
    /\ resBody[r2] = ErrorRes(InvalidModelText, "")

\* C18: a request is answered at most once, with 200, 400 or 500, and no later
\* event (data, end or error after the stream ended or failed) sends a second
\* answer or changes the one sent.
AnsweredOnce(r) ==
  /\ status[r] \in {0, 200, 400, 500}
  /\ Responses(log[r]) = (IF status[r] = 0 THEN 0 ELSE 1)
  /\ status[r] /= 0 <=> pc[r] = "done"
  /\ status[r] /= 0 <=> resBody[r].kind /= "none"

AnswerIsFinal(r) ==
  status[r] /= 0 => status'[r] = status[r] /\ resBody'[r] = resBody[r]

C18_AnsweredOnce ==
  /\ [](\A r \in Reqs : AnsweredOnce(r))
  /\ [][\A r \in Reqs : AnswerIsFinal(r)]_vars

C18_Witness ==
  \E r \in Reqs :
    /\ status[r] = 200 /\ Responses(log[r]) = 1
    /\ log[r][Len(log[r])] = "late_error"

\* C19: every request that came in is eventually answered, provided the
\* upstream answers its calls and ends its stream; this needs nothing of the
\* other requests, whose upstream calls may stay pending for ever.
C19_EventuallyAnswered ==
  \A r \in Reqs \ {Stalling} : Received(r) ~> (pc[r] = "done" /\ status[r] /= 0)

C19_Witness ==
  \E r \in Reqs \ {Stalling} :
    /\ status[r] = 200
    /\ pc[Stalling] = "posting" /\ status[Stalling] = 0

====
